---- MODULE Spec2Model ----
(***************************************************************************)
(* Model of the interview session controller (src/main.py,                 *)
(* ejecutar_entrevista) with its collaborators: the question generator     *)
(* (src/modules/llm_conversacion.py) and the conversation store            *)
(* (src/modules/entrevista_logger.py).  Texts are sequences of one-        *)
(* character strings so that strip, lower, replace and substring search    *)
(* are computed as Python computes them.                                   *)
(***************************************************************************)
EXTENDS Integers, Sequences, FiniteSets, TLC

VARIABLES
    pc,              \* position of ejecutar_entrevista
    fin,             \* how the function ended ("" while running)
    usar_tts,        \* argument usar_tts
    hayClave,        \* OPENROUTER_API_KEY is set (read at import)
    conversacion,    \* local list conversacion
    respuesta,       \* local respuesta (last capture result)
    nueva_pregunta,  \* local nueva_pregunta (last generated text)
    resultadoGen,    \* what the remote model did on the last generation
    sitio,           \* call site of the guardar_conversacion in progress
    marca,           \* datos["timestamp"] of the guardar_conversacion in progress
    reloj,           \* the wall clock read by datetime.now()
    existe,          \* the session file exists on disk
    archivo,         \* content of the session file, as written chunks
    anterior,        \* content of the session file when the call in progress began
    nGuardados,      \* number of guardar_conversacion calls made so far
    ultimoGuardado,  \* conversation passed to the last guardar_conversacion call
    nNoVacias,       \* number of non-blank capture results so far
    audio,           \* what the last texto_a_voz call returned
    archivo_salida,  \* logger.archivo_salida
    rutaAbierta,     \* path given to the last open(..., 'w')
    prompt_base,     \* local prompt_base (content of data/prompt_base.txt)
    mensajes,        \* payload["messages"] of the request (generator specification)
    remota,          \* the remote model's reply to it (generator specification)
    impresos,        \* interviewer texts printed so far (lines 68, 110, 122)
    nGeneradas,      \* number of generar_pregunta calls that returned
    nEvaluadas,      \* number of termination checks made (line 108)
    loggers,         \* the EntrevistaLogger objects created (store specification)
    disco,           \* the files of the transcript directory, by path
    llamada,         \* the last cargar_conversacion or generar_resumen call
    cargada,         \* the conversation that call loaded
    resumen,         \* what generar_resumen returned
    argumento,       \* value given to --modelo ("" when the flag is absent)
    modelo_llm,      \* args.modelo, passed on as modelo_llm
    modelo_enviado   \* payload["model"] of the request

vars == <<pc, fin, usar_tts, hayClave, conversacion, respuesta, nueva_pregunta,
          resultadoGen, sitio, marca, reloj, existe, archivo, anterior,
          nGuardados, ultimoGuardado, nNoVacias, audio, archivo_salida,
          rutaAbierta, prompt_base, mensajes, remota,
          impresos, nGeneradas, nEvaluadas,
          loggers, disco, llamada, cargada, resumen,
          argumento, modelo_llm, modelo_enviado>>

\* what the candidate has been shown and how often the controller generated
\* and checked
varsVista == <<impresos, nGeneradas, nEvaluadas>>

\* state of the conversation store used on its own
varsAlmacen == <<loggers, disco, llamada, cargada, resumen>>

\* state of the command line
varsCli == <<argumento, modelo_llm, modelo_enviado>>

(***************************************************************************)
(* Bounds of the model.                                                    *)
(***************************************************************************)
\* candidate answers (non-blank captures) per session
MaxTurnos == 1

\* last value of the wall clock
MaxReloj == 1

\* turns of a conversation handed to generar_pregunta or to the store on
\* its own
MaxConv == 2

\* last instant of the clock of the store specification
MaxTics == 2

\* EntrevistaLogger objects created in the store specification
MaxLoggers == 2

(***************************************************************************)
(* Literal texts of the program.                                           *)
(***************************************************************************)
pregunta_inicial ==
    <<"H", "o", "l", "a", ",", " ", "b", "i", "e", "n", "v", "e", "n", "i", "d", "o", " ", "a", " ", "e", "s", "t", "a", " ", "e", "n", "t", "r", "e", "v", "i", "s", "t", "a", ".", " ", "¿", "P", "o", "d", "r", "í", "a", "s", " ", "p", "r", "e", "s", "e", "n", "t", "a", "r", "t", "e", " ", "b", "r", "e", "v", "e", "m", "e", "n", "t", "e", " ", "y", " ", "c", "o", "n", "t", "a", "r", "m", "e", " ", "s", "o", "b", "r", "e", " ", "t", "u", " ", "e", "x", "p", "e", "r", "i", "e", "n", "c", "i", "a", " ", "p", "r", "o", "f", "e", "s", "i", "o", "n", "a", "l", "?">>

MarcadorGracias ==
    <<"g", "r", "a", "c", "i", "a", "s", " ", "p", "o", "r", " ", "t", "u", " ", "t", "i", "e", "m", "p", "o">>

MarcadorFinalizar ==
    <<"f", "i", "n", "a", "l", "i", "z", "a", "r">>

PrefijoEntrevistador ==
    <<"E", "n", "t", "r", "e", "v", "i", "s", "t", "a", "d", "o", "r", ":">>

RespaldoForma ==
    <<"¿", "P", "o", "d", "r", "í", "a", "s", " ", "c", "o", "n", "t", "a", "r", "m", "e", " ", "m", "á", "s", " ", "s", "o", "b", "r", "e", " ", "t", "u", "s", " ", "h", "a", "b", "i", "l", "i", "d", "a", "d", "e", "s", " ", "t", "é", "c", "n", "i", "c", "a", "s", "?">>

RespaldoTransporte ==
    <<"¿", "C", "ó", "m", "o", " ", "r", "e", "l", "a", "c", "i", "o", "n", "a", "r", "í", "a", "s", " ", "t", "u", " ", "e", "x", "p", "e", "r", "i", "e", "n", "c", "i", "a", " ", "p", "r", "e", "v", "i", "a", " ", "c", "o", "n", " ", "e", "s", "t", "e", " ", "p", "u", "e", "s", "t", "o", " ", "e", "s", "p", "e", "c", "í", "f", "i", "c", "a", "m", "e", "n", "t", "e", "?">>

RespaldoCliente ==
    <<"I", "n", "t", "e", "r", "e", "s", "a", "n", "t", "e", ".", " ", "¿", "P", "u", "e", "d", "e", "s", " ", "c", "o", "n", "t", "a", "r", "m", "e", " ", "m", "á", "s", " ", "s", "o", "b", "r", "e", " ", "t", "u", " ", "e", "x", "p", "e", "r", "i", "e", "n", "c", "i", "a", " ", "e", "n", " ", "e", "s", "e", " ", "a", "s", "p", "e", "c", "t", "o", "?">>

InstruccionFinal ==
    <<"G", "e", "n", "e", "r", "a", " ", "l", "a", " ", "s", "i", "g", "u", "i", "e", "n", "t", "e", " ", "p", "r", "e", "g", "u", "n", "t", "a", " ", "d", "e", "l", " ", "e", "n", "t", "r", "e", "v", "i", "s", "t", "a", "d", "o", "r", " ", "b", "a", "s", "a", "d", "a", " ", "e", "n", " ", "l", "a", " ", "c", "o", "n", "v", "e", "r", "s", "a", "c", "i", "ó", "n", " ", "a", "n", "t", "e", "r", "i", "o", "r", ".", " ", "S", "o", "l", "o", " ", "d", "e", "v", "u", "e", "l", "v", "e", " ", "l", "a", " ", "p", "r", "e", "g", "u", "n", "t", "a", " ", "s", "i", "n", " ", "e", "x", "p", "l", "i", "c", "a", "c", "i", "o", "n", "e", "s", " ", "a", "d", "i", "c", "i", "o", "n", "a", "l", "e", "s", " ", "o", " ", "p", "r", "e", "f", "i", "j", "o", "s", ".">>

(***************************************************************************)
(* Inputs: what the microphone transcription and the remote model may      *)
(* return.                                                                 *)
(***************************************************************************)
TxtVacio ==
    <<>>

TxtBlancos ==
    <<" ", "\n", " ">>

TxtHola ==
    <<" ", "S", "o", "y", " ", "\"", "A", "n", "a", "\"", " ">>

TxtCandFinalizar ==
    <<"q", "u", "i", "e", "r", "o", " ", "f", "i", "n", "a", "l", "i", "z", "a", "r">>

TxtPregunta ==
    <<"¿", "Q", "u", "é", " ", "f", "r", "a", "m", "e", "w", "o", "r", "k", "s", " ", "u", "s", "a", "s", "?">>

TxtPreguntaPrefijo ==
    <<"E", "n", "t", "r", "e", "v", "i", "s", "t", "a", "d", "o", "r", ":", " ", "¿", "Q", "u", "é", " ", "f", "r", "a", "m", "e", "w", "o", "r", "k", "s", " ", "u", "s", "a", "s", "?", "\n">>

TxtSoloPrefijo ==
    <<" ", "E", "n", "t", "r", "e", "v", "i", "s", "t", "a", "d", "o", "r", ":", " ">>

TxtCierreMayus ==
    <<"V", "a", "m", "o", "s", " ", "a", " ", "F", "I", "N", "A", "L", "I", "Z", "A", "R", ".">>

TxtCierreGracias ==
    <<"M", "u", "c", "h", "a", "s", " ", "G", "r", "a", "c", "i", "a", "s", " ", "P", "o", "r", " ", "T", "u", " ", "T", "i", "e", "m", "p", "o">>

TxtEscapes ==
    <<"C", ":", "\\", "n", " ", "\"", "s", "í", "\"", "\t", "\n", "x">>

PromptEjemplo ==
    <<"E", "r", "e", "s", " ", "u", "n", " ", "e", "n", "t", "r", "e", "v", "i", "s", "t", "a", "d", "o", "r", " ", "e", "x", "p", "e", "r", "i", "m", "e", "n", "t", "a", "d", "o", " ", "p", "a", "r", "a", " ", "p", "u", "e", "s", "t", "o", "s", " ", "d", "e", " ", "t", "e", "c", "n", "o", "l", "o", "g", "í", "a", ".">>

\* contents of data/prompt_base.txt
Prompts == {<<>>, PromptEjemplo}

\* results of grabar_y_transcribir (Whisper's text, returned unstripped)
Capturas == {TxtVacio, TxtBlancos, TxtHola, TxtCandFinalizar}

\* contents of a well-formed reply of the remote model
Contenidos == {TxtVacio, TxtBlancos, TxtPregunta, TxtPreguntaPrefijo,
               TxtSoloPrefijo, TxtCierreMayus, TxtCierreGracias}

\* what requests.post and the reply can be
TiposTransporte == {"error_red", "http_error", "json_invalido", "contenido_nulo"}

TiposForma == {"sin_choices", "choices_vacio", "sin_message", "sin_content"}

\* returns of texto_a_voz: the audio path, or None after a swallowed error
ResultadosVoz == {"temp/audio_salida.wav", "None"}

RespuestasRemotas ==
    [tipo : TiposTransporte \cup TiposForma, contenido : {TxtVacio}]
    \cup [tipo : {"ok"}, contenido : Contenidos]

(***************************************************************************)
(* Python's str operations.                                                *)
(***************************************************************************)
EsEspacio(c) == c \in {" ", "\t", "\n", "\r"}

RECURSIVE LStrip(_)
LStrip(s) ==
    IF s = <<>> THEN <<>>
    ELSE IF EsEspacio(Head(s)) THEN LStrip(Tail(s)) ELSE s

RECURSIVE RStrip(_)
RStrip(s) ==
    IF s = <<>> THEN <<>>
    ELSE IF EsEspacio(s[Len(s)]) THEN RStrip(SubSeq(s, 1, Len(s) - 1)) ELSE s

Strip(s) == RStrip(LStrip(s))

Mayusculas ==
    <<"A", "B", "C", "D", "E", "F", "G", "H", "I", "J", "K", "L", "M", "N", "O", "P", "Q", "R", "S", "T", "U", "V", "W", "X", "Y", "Z", "Á", "É", "Í", "Ó", "Ú", "Ñ", "Ü">>

Minusculas ==
    <<"a", "b", "c", "d", "e", "f", "g", "h", "i", "j", "k", "l", "m", "n", "o", "p", "q", "r", "s", "t", "u", "v", "w", "x", "y", "z", "á", "é", "í", "ó", "ú", "ñ", "ü">>

\* str.lower() letter by letter, as a table
TablaLower ==
    [c \in {Mayusculas[i] : i \in 1..Len(Mayusculas)} |->
        Minusculas[CHOOSE i \in 1..Len(Mayusculas) : Mayusculas[i] = c]]

LowerChar(c) == IF c \in DOMAIN TablaLower THEN TablaLower[c] ELSE c

Lower(s) == [i \in 1..Len(s) |-> LowerChar(s[i])]

\* sub in s
Contiene(s, sub) ==
    \E i \in 0..(Len(s) - Len(sub)) : SubSeq(s, i + 1, i + Len(sub)) = sub

\* s.replace(viejo, nuevo), viejo non-empty
RECURSIVE Replace(_, _, _)
Replace(s, viejo, nuevo) ==
    IF Len(s) < Len(viejo) THEN s
    ELSE IF SubSeq(s, 1, Len(viejo)) = viejo
         THEN nuevo \o Replace(SubSeq(s, Len(viejo) + 1, Len(s)), viejo, nuevo)
         ELSE <<Head(s)>> \o Replace(Tail(s), viejo, nuevo)

(***************************************************************************)
(* Question generator (llm_conversacion.py).                               *)
(***************************************************************************)
\* mutant: no fallback text when the request or the reply fails
OpenRouterGenerar_SinRespaldo(r) ==
    IF r.tipo = "ok"
    THEN Strip(Replace(Strip(r.contenido), PrefijoEntrevistador, <<>>))
    ELSE <<>>

\* OpenRouterConversacion.generar_pregunta, given what the remote model did
OpenRouterGenerar(r) ==
    IF r.tipo \in TiposTransporte THEN RespaldoTransporte
    ELSE IF r.tipo \in TiposForma THEN RespaldoForma
    ELSE Strip(Replace(Strip(r.contenido), PrefijoEntrevistador, <<>>))

Msg(role, content) == [role |-> role, content |-> content]

\* mutant: the two API roles are exchanged
Mensajes_RolesCambiados(conv, prompt) ==
    <<Msg("system", prompt)>>
    \o [i \in 1..Len(conv) |->
          Msg(IF conv[i].rol = "entrevistador" THEN "user" ELSE "assistant",
              conv[i].texto)]
    \o <<Msg("user", InstruccionFinal)>>

\* OpenRouterConversacion.generar_pregunta lines 67-79: the message list
Mensajes(conv, prompt) ==
    <<Msg("system", prompt)>>
    \o [i \in 1..Len(conv) |->
          Msg(IF conv[i].rol = "entrevistador" THEN "assistant" ELSE "user",
              conv[i].texto)]
    \o <<Msg("user", InstruccionFinal)>>

\* mutant: a client that cannot be built is reported as a transport failure
generar_pregunta_DosRespaldos(clave, r) ==
    IF ~clave THEN RespaldoTransporte ELSE OpenRouterGenerar(r)

\* module-level generar_pregunta: the constructor raises without an API key
generar_pregunta(clave, r) ==
    IF ~clave THEN RespaldoCliente ELSE OpenRouterGenerar(r)

\* what the caller can tell about the generation: "ok" or the failing layer
ClaseResultado(clave, r) ==
    IF ~clave THEN "cliente"
    ELSE IF r.tipo \in TiposTransporte THEN "transporte"
    ELSE IF r.tipo \in TiposForma THEN "forma"
    ELSE "ok"

(***************************************************************************)
(* Termination check of the controller (main.py line 108).                 *)
(***************************************************************************)
\* mutant: the check without .lower()
EsCierre_SensibleACaja(texto) ==
    \/ Contiene(texto, MarcadorGracias)
    \/ Contiene(texto, MarcadorFinalizar)

EsCierre(texto) ==
    \/ Contiene(Lower(texto), MarcadorGracias)
    \/ Contiene(Lower(texto), MarcadorFinalizar)

(***************************************************************************)
(* Conversation store (entrevista_logger.py).  The file is the sequence of *)
(* chunks json.dump has written: the opening with the timestamp, one chunk *)
(* per turn, and the closing.                                              *)
(***************************************************************************)
Turno(rol, texto) == [rol |-> rol, texto |-> texto]

Trozo(tipo, num, rol, texto) ==
    [tipo |-> tipo, num |-> num, rol |-> rol, texto |-> texto]

\* datos of guardar_conversacion
Datos(t, conv) == [timestamp |-> t, conversacion |-> conv]

\* characters a JSON string cannot hold as they are
Escapables == {"\"", "\\", "\n", "\r", "\t"}

\* the JSON encoder's escape of one character (ensure_ascii=False: every
\* other character is written as it is)
EscaparChar(c) ==
    IF c = "\"" THEN <<"\\", "\"">>
    ELSE IF c = "\\" THEN <<"\\", "\\">>
    ELSE IF c = "\n" THEN <<"\\", "n">>
    ELSE IF c = "\r" THEN <<"\\", "r">>
    ELSE IF c = "\t" THEN <<"\\", "t">>
    ELSE <<c>>

RECURSIVE EscaparDesde(_, _)
EscaparDesde(s, i) ==
    IF i > Len(s) THEN <<>>
    ELSE EscaparChar(s[i]) \o EscaparDesde(s, i + 1)

\* the body of the JSON string json.dump writes for the str s
EscaparJson(s) ==
    IF \A i \in 1..Len(s) : s[i] \notin Escapables THEN s
    ELSE EscaparDesde(s, 1)

\* the character a backslash escape stands for
DesescaparChar(c) ==
    IF c = "n" THEN "\n"
    ELSE IF c = "r" THEN "\r"
    ELSE IF c = "t" THEN "\t"
    ELSE c

RECURSIVE DesescaparDesde(_, _)
DesescaparDesde(s, i) ==
    IF i > Len(s) THEN <<>>
    ELSE IF s[i] = "\\" /\ i < Len(s)
         THEN <<DesescaparChar(s[i + 1])>> \o DesescaparDesde(s, i + 2)
         ELSE <<s[i]>> \o DesescaparDesde(s, i + 1)

\* the str json.load reads from the body of a JSON string
DesescaparJson(s) ==
    IF \A i \in 1..Len(s) : s[i] # "\\" THEN s
    ELSE DesescaparDesde(s, 1)

\* mutant: the texts are written without escaping
Serializar_SinEscapar(datos) ==
    <<Trozo("abre", datos.timestamp, "", <<>>)>>
    \o [i \in 1..Len(datos.conversacion) |->
          Trozo("turno", 0, datos.conversacion[i].rol, datos.conversacion[i].texto)]
    \o <<Trozo("cierra", 0, "", <<>>)>>

\* json.dump(datos, f, ensure_ascii=False, indent=2)
Serializar(datos) ==
    <<Trozo("abre", datos.timestamp, "", <<>>)>>
    \o [i \in 1..Len(datos.conversacion) |->
          Trozo("turno", 0, datos.conversacion[i].rol,
                EscaparJson(datos.conversacion[i].texto))]
    \o <<Trozo("cierra", 0, "", <<>>)>>

\* json.load succeeds on this content
EsJsonValido(contenido) ==
    /\ Len(contenido) >= 2
    /\ contenido[1].tipo = "abre"
    /\ contenido[Len(contenido)].tipo = "cierra"
    /\ \A i \in 2..(Len(contenido) - 1) : contenido[i].tipo = "turno"

\* json.load(f), for valid content
Analizar(contenido) ==
    Datos(contenido[1].num,
          [i \in 1..(Len(contenido) - 2) |->
              Turno(contenido[i + 1].rol, DesescaparJson(contenido[i + 1].texto))])

\* EntrevistaLogger.cargar_conversacion on a file that holds contenido
cargar_conversacion(hay, contenido) ==
    IF hay /\ EsJsonValido(contenido)
    THEN Analizar(contenido).conversacion
    ELSE <<>>

\* EntrevistaLogger.__init__: the file name made of the creation time
NombreArchivo(directorio, creado) == <<directorio, "entrevista_", creado, ".json">>

\* no open() so far
RutaNinguna == <<"", "", 0, "">>

\* no request so far
RemotaNinguna == [tipo |-> "", contenido |-> <<>>]

NumRol(conv, rol) == Cardinality({i \in 1..Len(conv) : conv[i].rol = rol})

\* files that guardar_conversacion did not write: the JSON text [], the
\* JSON text {}, and bytes that are not UTF-8, each as one chunk
ArchivoLista == <<Trozo("lista", 0, "", <<>>)>>

ArchivoObjeto == <<Trozo("objeto", 0, "", <<>>)>>

ArchivoNoUtf8 == <<Trozo("no_utf8", 0, "", <<>>)>>

\* cargar_conversacion lines 69-71: the exception raised inside the try
\* ("" when there is none)
ErrorLectura(hay, contenido) ==
    IF ~hay THEN "FileNotFoundError"
    ELSE IF contenido = ArchivoNoUtf8 THEN "UnicodeDecodeError"
    ELSE IF contenido = ArchivoLista THEN "AttributeError"
    ELSE IF contenido = ArchivoObjeto \/ EsJsonValido(contenido) THEN ""
    ELSE "JSONDecodeError"

\* cargar_conversacion line 72: the exception that leaves the call; only
\* FileNotFoundError and JSONDecodeError are caught
ErrorCargar(hay, contenido) ==
    IF ErrorLectura(hay, contenido) \in {"FileNotFoundError", "JSONDecodeError"}
    THEN ""
    ELSE ErrorLectura(hay, contenido)

\* str.split(): the number of words of s
ContarPalabras(s) ==
    Cardinality({i \in 1..Len(s) :
                    ~EsEspacio(s[i]) /\ (i = 1 \/ EsEspacio(s[i - 1]))})

\* " ".join(textos)
RECURSIVE Unir(_)
Unir(textos) ==
    IF textos = <<>> THEN <<>>
    ELSE IF Len(textos) = 1 THEN textos[1]
    ELSE textos[1] \o <<" ">> \o Unir(Tail(textos))

\* m["texto"] for m in conv if m["rol"] == rol
TextosDe(conv, rol) ==
    LET elegidos == SelectSeq(conv, LAMBDA m : m.rol = rol)
    IN  [i \in 1..Len(elegidos) |-> elegidos[i].texto]

MensajeSinConversacion == "No se encontró conversación para resumir"

\* no generar_resumen call so far
ResumenNinguno == [ninguno |-> TRUE]

\* mutant: the last interaction is taken from the first turn
generar_resumen_UltimaEsPrimera(conv) ==
    IF conv = <<>> THEN [error |-> MensajeSinConversacion]
    ELSE [turnos_totales |-> Len(conv),
          turnos_entrevistador |-> NumRol(conv, "entrevistador"),
          turnos_candidato |-> NumRol(conv, "candidato"),
          palabras_entrevistador |-> ContarPalabras(Unir(TextosDe(conv, "entrevistador"))),
          palabras_candidato |-> ContarPalabras(Unir(TextosDe(conv, "candidato"))),
          duracion_estimada_medios_minutos |-> Len(conv),
          primera_pregunta |-> conv[1].texto,
          ultima_interaccion |-> conv[1].texto]

\* generar_resumen lines 104-130, given the conversation loaded at line 102
\* (the duration, len * 0.5 minutes, is kept in half minutes)
generar_resumen(conv) ==
    IF conv = <<>> THEN [error |-> MensajeSinConversacion]
    ELSE [turnos_totales |-> Len(conv),
          turnos_entrevistador |-> NumRol(conv, "entrevistador"),
          turnos_candidato |-> NumRol(conv, "candidato"),
          palabras_entrevistador |-> ContarPalabras(Unir(TextosDe(conv, "entrevistador"))),
          palabras_candidato |-> ContarPalabras(Unir(TextosDe(conv, "candidato"))),
          duracion_estimada_medios_minutos |-> Len(conv),
          primera_pregunta |-> conv[1].texto,
          ultima_interaccion |-> conv[Len(conv)].texto]

\* instants of the clock within one second
TicsPorSegundo == 2

\* ahora.strftime("%Y%m%d_%H%M%S"): the instant cut to its second
Strftime(t) == t \div TicsPorSegundo

\* the file names EntrevistaLogger.__init__ can make
RutasSesion == {NombreArchivo("transcripts", seg) : seg \in 0..Strftime(MaxTics)}

\* other files, which no guardar_conversacion call wrote
NombresAjenos == {"lista", "objeto", "no_utf8", "vacio", "cortado", "inexistente"}

RutaAjena(nombre) == <<"transcripts", nombre, 0, ".json">>

Rutas == RutasSesion \cup {RutaAjena(nombre) : nombre \in NombresAjenos}

\* a file: its content, whether a completed guardar_conversacion call left
\* it, the conversation that call was given, and the loggers that wrote it
Fichero(hay, contenido, completo, guardada, escritores) ==
    [existe |-> hay, contenido |-> contenido, completo |-> completo,
     guardada |-> guardada, escritores |-> escritores]

\* what the other files hold: the cut one is the record of the opening
\* question after its first turn, as an interrupted json.dump leaves it
ContenidoAjeno(nombre) ==
    IF nombre = "lista" THEN ArchivoLista
    ELSE IF nombre = "objeto" THEN ArchivoObjeto
    ELSE IF nombre = "no_utf8" THEN ArchivoNoUtf8
    ELSE IF nombre = "cortado"
         THEN SubSeq(Serializar(Datos(0, <<Turno("entrevistador", pregunta_inicial)>>)),
                     1, 2)
    ELSE <<>>

DiscoInicial ==
    [p \in Rutas |->
        IF p \in RutasSesion
        THEN Fichero(FALSE, <<>>, FALSE, <<>>, {})
        ELSE Fichero(p[2] # "inexistente", ContenidoAjeno(p[2]), FALSE, <<>>, {})]

\* no cargar_conversacion or generar_resumen call so far
LlamadaNinguna ==
    [op |-> "", logger |-> 0, ruta |-> RutaNinguna, completo |-> FALSE,
     guardada |-> <<>>]

EsPrefijo(a, b) == Len(a) <= Len(b) /\ SubSeq(b, 1, Len(a)) = a

(***************************************************************************)
(* ejecutar_entrevista (main.py).                                          *)
(***************************************************************************)
Init ==
    /\ pc = "inicio"
    /\ fin = ""
    /\ usar_tts \in BOOLEAN
    /\ hayClave \in BOOLEAN
    /\ conversacion = <<>>
    /\ respuesta = <<>>
    /\ nueva_pregunta = <<>>
    /\ resultadoGen = ""
    /\ sitio = ""
    /\ marca = 0
    /\ reloj = 0
    /\ existe = FALSE
    /\ archivo = <<>>
    /\ anterior = <<>>
    /\ nGuardados = 0
    /\ ultimoGuardado = <<>>
    /\ nNoVacias = 0
    /\ audio = ""
    /\ archivo_salida = NombreArchivo("transcripts", 0)
    /\ rutaAbierta = RutaNinguna
    /\ prompt_base = PromptEjemplo
    /\ mensajes = <<>>
    /\ remota = RemotaNinguna
    /\ impresos = <<>>
    /\ nGeneradas = 0
    /\ nEvaluadas = 0
    /\ loggers = <<>>
    /\ disco = DiscoInicial
    /\ llamada = LlamadaNinguna
    /\ cargada = <<>>
    /\ resumen = ResumenNinguno
    /\ argumento = ""
    /\ modelo_llm = ""
    /\ modelo_enviado = ""

\* positions before the try of line 79
PosAntesDelBucle == {"inicio", "inicio_voz", "inicio_anadir"}

\* positions inside the try (guardar_* count when the call is not the handler's)
PosBucle ==
    {"esperar", "revisar_respuesta", "anadir_candidato", "generar",
     "revisar_cierre", "cierre_mostrar", "cierre_voz", "cierre_anadir",
     "mostrar", "voz", "anadir"}

PosGuardar == {"guardar_abrir", "guardar_volcar"}

\* line 68: print the opening question
MostrarInicial ==
    /\ pc = "inicio"
    /\ pc' = IF usar_tts THEN "inicio_voz" ELSE "inicio_anadir"
    /\ impresos' = Append(impresos, pregunta_inicial)
    /\ UNCHANGED <<fin, usar_tts, hayClave, conversacion, respuesta, nueva_pregunta,
                   resultadoGen, sitio, marca, reloj, existe, archivo, anterior,
                   nGuardados, ultimoGuardado, nNoVacias,
                   audio, archivo_salida, rutaAbierta, prompt_base, mensajes, remota, nGeneradas, nEvaluadas,
                   varsAlmacen, varsCli>>

\* line 71: texto_a_voz returns a path, or None after swallowing its error
VozInicial ==
    /\ pc = "inicio_voz"
    /\ audio' \in ResultadosVoz
    /\ pc' = "inicio_anadir"
    /\ UNCHANGED <<fin, usar_tts, hayClave, conversacion, respuesta, nueva_pregunta,
                   resultadoGen, sitio, marca, reloj, existe, archivo, anterior,
                   nGuardados, ultimoGuardado, nNoVacias,
                   archivo_salida, rutaAbierta, prompt_base, mensajes, remota, varsVista,
                   varsAlmacen, varsCli>>

\* mutant: the opening question is shown but not appended
AnadirInicial_SinAnadir ==
    /\ pc = "inicio_anadir"
    /\ pc' = "esperar"
    /\ UNCHANGED <<fin, usar_tts, hayClave, conversacion, respuesta, nueva_pregunta,
                   resultadoGen, sitio, marca, reloj, existe, archivo, anterior,
                   nGuardados, ultimoGuardado, nNoVacias,
                   audio, archivo_salida, rutaAbierta, prompt_base, mensajes, remota, varsVista,
                   varsAlmacen, varsCli>>

\* lines 74-77: append the opening question
AnadirInicial ==
    /\ pc = "inicio_anadir"
    /\ conversacion' = Append(conversacion, Turno("entrevistador", pregunta_inicial))
    /\ pc' = "esperar"
    /\ UNCHANGED <<fin, usar_tts, hayClave, respuesta, nueva_pregunta,
                   resultadoGen, sitio, marca, reloj, existe, archivo, anterior,
                   nGuardados, ultimoGuardado, nNoVacias,
                   audio, archivo_salida, rutaAbierta, prompt_base, mensajes, remota, varsVista,
                   varsAlmacen, varsCli>>

\* lines 82-86: input() and grabar_y_transcribir() returning text
Capturar ==
    /\ pc = "esperar"
    /\ \E r \in Capturas :
          /\ Strip(r) # <<>> => nNoVacias < MaxTurnos
          /\ respuesta' = r
          /\ nNoVacias' = IF Strip(r) # <<>> THEN nNoVacias + 1 ELSE nNoVacias
    /\ pc' = "revisar_respuesta"
    /\ UNCHANGED <<fin, usar_tts, hayClave, conversacion, nueva_pregunta,
                   resultadoGen, sitio, marca, reloj, existe, archivo, anterior,
                   nGuardados, ultimoGuardado,
                   audio, archivo_salida, rutaAbierta, prompt_base, mensajes, remota, varsVista,
                   varsAlmacen, varsCli>>

\* line 86: grabar_y_transcribir() raises (audio device, model load, file)
CapturaFalla ==
    /\ pc = "esperar"
    /\ pc' = "abortado"
    /\ fin' = "ErrorCaptura"
    /\ UNCHANGED <<usar_tts, hayClave, conversacion, respuesta, nueva_pregunta,
                   resultadoGen, sitio, marca, reloj, existe, archivo, anterior,
                   nGuardados, ultimoGuardado, nNoVacias,
                   audio, archivo_salida, rutaAbierta, prompt_base, mensajes, remota, varsVista,
                   varsAlmacen, varsCli>>

\* mutant: the blank answer is not skipped
RevisarRespuesta_SinContinue ==
    /\ pc = "revisar_respuesta"
    /\ pc' = "anadir_candidato"
    /\ UNCHANGED <<fin, usar_tts, hayClave, conversacion, respuesta, nueva_pregunta,
                   resultadoGen, sitio, marca, reloj, existe, archivo, anterior,
                   nGuardados, ultimoGuardado, nNoVacias,
                   audio, archivo_salida, rutaAbierta, prompt_base, mensajes, remota, varsVista,
                   varsAlmacen, varsCli>>

\* lines 88-93: blank answer -> continue; otherwise print it
RevisarRespuesta ==
    /\ pc = "revisar_respuesta"
    /\ pc' = IF Strip(respuesta) = <<>> THEN "esperar" ELSE "anadir_candidato"
    /\ UNCHANGED <<fin, usar_tts, hayClave, conversacion, respuesta, nueva_pregunta,
                   resultadoGen, sitio, marca, reloj, existe, archivo, anterior,
                   nGuardados, ultimoGuardado, nNoVacias,
                   audio, archivo_salida, rutaAbierta, prompt_base, mensajes, remota, varsVista,
                   varsAlmacen, varsCli>>

\* mutant: the answer is appended and the question generated without saving
AnadirCandidato_SinGuardar ==
    /\ pc = "anadir_candidato"
    /\ conversacion' = Append(conversacion, Turno("candidato", respuesta))
    /\ pc' = "generar"
    /\ UNCHANGED <<fin, usar_tts, hayClave, respuesta, nueva_pregunta,
                   resultadoGen, sitio, marca, reloj, existe, archivo, anterior,
                   nGuardados, ultimoGuardado, nNoVacias,
                   audio, archivo_salida, rutaAbierta, prompt_base, mensajes, remota, varsVista,
                   varsAlmacen, varsCli>>

\* lines 96-102: append the answer; the next statement is the save
AnadirCandidato ==
    /\ pc = "anadir_candidato"
    /\ conversacion' = Append(conversacion, Turno("candidato", respuesta))
    /\ pc' = "guardar_abrir"
    /\ sitio' = "candidato"
    /\ UNCHANGED <<fin, usar_tts, hayClave, respuesta, nueva_pregunta,
                   resultadoGen, marca, reloj, existe, archivo, anterior,
                   nGuardados, ultimoGuardado, nNoVacias,
                   audio, archivo_salida, rutaAbierta, prompt_base, mensajes, remota, varsVista,
                   varsAlmacen, varsCli>>

\* mutant: the file is opened for appending, not truncated
GuardarAbrir_ModoAppend ==
    /\ pc = "guardar_abrir"
    /\ rutaAbierta' = archivo_salida
    /\ \E t \in reloj..MaxReloj : reloj' = t /\ marca' = t
    /\ nGuardados' = nGuardados + 1
    /\ ultimoGuardado' = conversacion
    /\ anterior' = archivo
    /\ existe' = TRUE
    /\ archivo' = archivo
    /\ pc' = "guardar_volcar"
    /\ UNCHANGED <<fin, usar_tts, hayClave, conversacion, respuesta, nueva_pregunta,
                   resultadoGen, sitio, nNoVacias,
                   audio, archivo_salida, prompt_base, mensajes, remota, varsVista,
                   varsAlmacen, varsCli>>

\* guardar_conversacion lines 43-49: build datos, open(archivo_salida, 'w')
GuardarAbrir ==
    /\ pc = "guardar_abrir"
    /\ rutaAbierta' = archivo_salida
    /\ \E t \in reloj..MaxReloj : reloj' = t /\ marca' = t
    /\ nGuardados' = nGuardados + 1
    /\ ultimoGuardado' = conversacion
    /\ anterior' = archivo
    /\ existe' = TRUE
    /\ archivo' = <<>>
    /\ pc' = "guardar_volcar"
    /\ UNCHANGED <<fin, usar_tts, hayClave, conversacion, respuesta, nueva_pregunta,
                   resultadoGen, sitio, nNoVacias,
                   audio, archivo_salida, prompt_base, mensajes, remota, varsVista,
                   varsAlmacen, varsCli>>

\* guardar_conversacion line 49: open raises OSError, caught nowhere
GuardarAbrirFalla ==
    /\ pc = "guardar_abrir"
    /\ rutaAbierta' = archivo_salida
    /\ \E t \in reloj..MaxReloj : reloj' = t /\ marca' = t
    /\ nGuardados' = nGuardados + 1
    /\ ultimoGuardado' = conversacion
    /\ pc' = "abortado"
    /\ fin' = "OSError"
    /\ UNCHANGED <<usar_tts, hayClave, conversacion, respuesta, nueva_pregunta,
                   resultadoGen, sitio, existe, archivo, anterior, nNoVacias,
                   audio, archivo_salida, prompt_base, mensajes, remota, varsVista,
                   varsAlmacen, varsCli>>

\* where the caller goes on after guardar_conversacion returns
TrasGuardar(s) == IF s = "candidato" THEN "generar" ELSE "terminado"

\* mutant: the record written also holds the generated text that is still
\* to be appended
GuardarVolcar_ConPendiente ==
    /\ pc = "guardar_volcar"
    /\ archivo' = archivo \o Serializar(Datos(marca,
                      Append(conversacion, Turno("entrevistador", nueva_pregunta))))
    /\ pc' = TrasGuardar(sitio)
    /\ fin' = IF sitio = "candidato" THEN fin ELSE sitio
    /\ UNCHANGED <<usar_tts, hayClave, conversacion, respuesta, nueva_pregunta,
                   resultadoGen, sitio, marca, reloj, existe, anterior,
                   nGuardados, ultimoGuardado, nNoVacias,
                   audio, archivo_salida, rutaAbierta, prompt_base, mensajes, remota, varsVista,
                   varsAlmacen, varsCli>>

\* guardar_conversacion lines 50-52: json.dump, close, return to the caller
\* (line 105; lines 117-118; line 138)
GuardarVolcar ==
    /\ pc = "guardar_volcar"
    /\ archivo' = archivo \o Serializar(Datos(marca, conversacion))
    /\ pc' = TrasGuardar(sitio)
    /\ fin' = IF sitio = "candidato" THEN fin ELSE sitio
    /\ UNCHANGED <<usar_tts, hayClave, conversacion, respuesta, nueva_pregunta,
                   resultadoGen, sitio, marca, reloj, existe, anterior,
                   nGuardados, ultimoGuardado, nNoVacias,
                   audio, archivo_salida, rutaAbierta, prompt_base, mensajes, remota, varsVista,
                   varsAlmacen, varsCli>>

\* guardar_conversacion line 50: a write raises OSError after k chunks
GuardarVolcarFalla ==
    /\ pc = "guardar_volcar"
    /\ \E k \in 0..(Len(conversacion) + 1) :
          archivo' = archivo \o SubSeq(Serializar(Datos(marca, conversacion)), 1, k)
    /\ pc' = "abortado"
    /\ fin' = "OSError"
    /\ UNCHANGED <<usar_tts, hayClave, conversacion, respuesta, nueva_pregunta,
                   resultadoGen, sitio, marca, reloj, existe, anterior,
                   nGuardados, ultimoGuardado, nNoVacias,
                   audio, archivo_salida, rutaAbierta, prompt_base, mensajes, remota, varsVista,
                   varsAlmacen, varsCli>>

\* mutant: the message list aliases the conversation, so the final
\* instruction is appended to the caller's list
Generar_Alias ==
    /\ pc = "generar"
    /\ \E r \in RespuestasRemotas :
          /\ nueva_pregunta' = generar_pregunta(hayClave, r)
          /\ resultadoGen' = ClaseResultado(hayClave, r)
    /\ conversacion' = Append(conversacion, Turno("user", InstruccionFinal))
    /\ pc' = "revisar_cierre"
    /\ nGeneradas' = nGeneradas + 1
    /\ UNCHANGED <<fin, usar_tts, hayClave, respuesta,
                   sitio, marca, reloj, existe, archivo, anterior,
                   nGuardados, ultimoGuardado, nNoVacias,
                   audio, archivo_salida, rutaAbierta, prompt_base, mensajes, remota, impresos, nEvaluadas,
                   varsAlmacen, varsCli>>

\* line 105: generar_pregunta(conversacion, prompt_base, modelo_llm)
Generar ==
    /\ pc = "generar"
    /\ \E r \in RespuestasRemotas :
          /\ nueva_pregunta' = generar_pregunta(hayClave, r)
          /\ resultadoGen' = ClaseResultado(hayClave, r)
    /\ pc' = "revisar_cierre"
    /\ nGeneradas' = nGeneradas + 1
    /\ UNCHANGED <<fin, usar_tts, hayClave, conversacion, respuesta,
                   sitio, marca, reloj, existe, archivo, anterior,
                   nGuardados, ultimoGuardado, nNoVacias,
                   audio, archivo_salida, rutaAbierta, prompt_base, mensajes, remota, impresos, nEvaluadas,
                   varsAlmacen, varsCli>>

\* mutant: the check also looks at the candidate's answer
RevisarCierre_TambienRespuesta ==
    /\ pc = "revisar_cierre"
    /\ pc' = IF EsCierre(nueva_pregunta) \/ EsCierre(respuesta)
             THEN "cierre_mostrar" ELSE "mostrar"
    /\ nEvaluadas' = nEvaluadas + 1
    /\ UNCHANGED <<fin, usar_tts, hayClave, conversacion, respuesta, nueva_pregunta,
                   resultadoGen, sitio, marca, reloj, existe, archivo, anterior,
                   nGuardados, ultimoGuardado, nNoVacias,
                   audio, archivo_salida, rutaAbierta, prompt_base, mensajes, remota, impresos, nGeneradas,
                   varsAlmacen, varsCli>>

\* line 108: the termination check
RevisarCierre ==
    /\ pc = "revisar_cierre"
    /\ pc' = IF EsCierre(nueva_pregunta) THEN "cierre_mostrar" ELSE "mostrar"
    /\ nEvaluadas' = nEvaluadas + 1
    /\ UNCHANGED <<fin, usar_tts, hayClave, conversacion, respuesta, nueva_pregunta,
                   resultadoGen, sitio, marca, reloj, existe, archivo, anterior,
                   nGuardados, ultimoGuardado, nNoVacias,
                   audio, archivo_salida, rutaAbierta, prompt_base, mensajes, remota, impresos, nGeneradas,
                   varsAlmacen, varsCli>>

\* mutant: the closing text is printed as a question and again as the closing
CierreMostrar_DosVeces ==
    /\ pc = "cierre_mostrar"
    /\ pc' = IF usar_tts THEN "cierre_voz" ELSE "cierre_anadir"
    /\ impresos' = Append(Append(impresos, nueva_pregunta), nueva_pregunta)
    /\ UNCHANGED <<fin, usar_tts, hayClave, conversacion, respuesta, nueva_pregunta,
                   resultadoGen, sitio, marca, reloj, existe, archivo, anterior,
                   nGuardados, ultimoGuardado, nNoVacias,
                   audio, archivo_salida, rutaAbierta, prompt_base, mensajes, remota, nGeneradas, nEvaluadas,
                   varsAlmacen, varsCli>>

\* lines 109-110: print the closing text
CierreMostrar ==
    /\ pc = "cierre_mostrar"
    /\ pc' = IF usar_tts THEN "cierre_voz" ELSE "cierre_anadir"
    /\ impresos' = Append(impresos, nueva_pregunta)
    /\ UNCHANGED <<fin, usar_tts, hayClave, conversacion, respuesta, nueva_pregunta,
                   resultadoGen, sitio, marca, reloj, existe, archivo, anterior,
                   nGuardados, ultimoGuardado, nNoVacias,
                   audio, archivo_salida, rutaAbierta, prompt_base, mensajes, remota, nGeneradas, nEvaluadas,
                   varsAlmacen, varsCli>>

\* line 111
CierreVoz ==
    /\ pc = "cierre_voz"
    /\ audio' \in ResultadosVoz
    /\ pc' = "cierre_anadir"
    /\ UNCHANGED <<fin, usar_tts, hayClave, conversacion, respuesta, nueva_pregunta,
                   resultadoGen, sitio, marca, reloj, existe, archivo, anterior,
                   nGuardados, ultimoGuardado, nNoVacias,
                   archivo_salida, rutaAbierta, prompt_base, mensajes, remota, varsVista,
                   varsAlmacen, varsCli>>

\* lines 112-116: append the closing text; the next statement is the save
CierreAnadir ==
    /\ pc = "cierre_anadir"
    /\ conversacion' = Append(conversacion, Turno("entrevistador", nueva_pregunta))
    /\ pc' = "guardar_abrir"
    /\ sitio' = "cierre"
    /\ UNCHANGED <<fin, usar_tts, hayClave, respuesta, nueva_pregunta,
                   resultadoGen, marca, reloj, existe, archivo, anterior,
                   nGuardados, ultimoGuardado, nNoVacias,
                   audio, archivo_salida, rutaAbierta, prompt_base, mensajes, remota, varsVista,
                   varsAlmacen, varsCli>>

\* lines 121-123: print the new question
Mostrar ==
    /\ pc = "mostrar"
    /\ pc' = IF usar_tts THEN "voz" ELSE "anadir"
    /\ impresos' = Append(impresos, nueva_pregunta)
    /\ UNCHANGED <<fin, usar_tts, hayClave, conversacion, respuesta, nueva_pregunta,
                   resultadoGen, sitio, marca, reloj, existe, archivo, anterior,
                   nGuardados, ultimoGuardado, nNoVacias,
                   audio, archivo_salida, rutaAbierta, prompt_base, mensajes, remota, nGeneradas, nEvaluadas,
                   varsAlmacen, varsCli>>

\* mutant: a failed synthesis is not swallowed and ends the function
Voz_FalloAborta ==
    /\ pc = "voz"
    /\ audio' \in ResultadosVoz
    /\ pc' = IF audio' = "None" THEN "abortado" ELSE "anadir"
    /\ fin' = IF audio' = "None" THEN "ErrorVoz" ELSE fin
    /\ UNCHANGED <<usar_tts, hayClave, conversacion, respuesta, nueva_pregunta,
                   resultadoGen, sitio, marca, reloj, existe, archivo, anterior,
                   nGuardados, ultimoGuardado, nNoVacias,
                   archivo_salida, rutaAbierta, prompt_base, mensajes, remota, varsVista,
                   varsAlmacen, varsCli>>

\* line 124
Voz ==
    /\ pc = "voz"
    /\ audio' \in ResultadosVoz
    /\ pc' = "anadir"
    /\ UNCHANGED <<fin, usar_tts, hayClave, conversacion, respuesta, nueva_pregunta,
                   resultadoGen, sitio, marca, reloj, existe, archivo, anterior,
                   nGuardados, ultimoGuardado, nNoVacias,
                   archivo_salida, rutaAbierta, prompt_base, mensajes, remota, varsVista,
                   varsAlmacen, varsCli>>

\* mutant: the oldest turn is dropped when the new question is appended
Anadir_Ventana ==
    /\ pc = "anadir"
    /\ conversacion' = Tail(Append(conversacion, Turno("entrevistador", nueva_pregunta)))
    /\ pc' = "esperar"
    /\ UNCHANGED <<fin, usar_tts, hayClave, respuesta, nueva_pregunta,
                   resultadoGen, sitio, marca, reloj, existe, archivo, anterior,
                   nGuardados, ultimoGuardado, nNoVacias,
                   audio, archivo_salida, rutaAbierta, prompt_base, mensajes, remota, varsVista,
                   varsAlmacen, varsCli>>

\* lines 127-130: append the new question and loop
Anadir ==
    /\ pc = "anadir"
    /\ conversacion' = Append(conversacion, Turno("entrevistador", nueva_pregunta))
    /\ pc' = "esperar"
    /\ UNCHANGED <<fin, usar_tts, hayClave, respuesta, nueva_pregunta,
                   resultadoGen, sitio, marca, reloj, existe, archivo, anterior,
                   nGuardados, ultimoGuardado, nNoVacias,
                   audio, archivo_salida, rutaAbierta, prompt_base, mensajes, remota, varsVista,
                   varsAlmacen, varsCli>>

\* what an exception leaves in the file: with closes it, keeping k chunks
ArchivoAlInterrumpir(k) ==
    IF pc = "guardar_volcar"
    THEN archivo \o SubSeq(Serializar(Datos(marca, conversacion)), 1, k)
    ELSE archivo

CortesPosibles ==
    IF pc = "guardar_volcar" THEN 0..(Len(conversacion) + 2) ELSE {0}

\* KeyboardInterrupt before line 79: no handler, the exception leaves main
InterrupcionAntesDelBucle ==
    /\ pc \in PosAntesDelBucle
    /\ pc' = "abortado"
    /\ fin' = "KeyboardInterrupt"
    /\ UNCHANGED <<usar_tts, hayClave, conversacion, respuesta, nueva_pregunta,
                   resultadoGen, sitio, marca, reloj, existe, archivo, anterior,
                   nGuardados, ultimoGuardado, nNoVacias,
                   audio, archivo_salida, rutaAbierta, prompt_base, mensajes, remota, varsVista,
                   varsAlmacen, varsCli>>

\* mutant: the handler records the interruption as a turn before saving
InterrupcionEnBucle_AnadeTurno ==
    /\ \/ pc \in PosBucle
       \/ pc \in PosGuardar /\ sitio # "interrupcion"
    /\ \E k \in CortesPosibles : archivo' = ArchivoAlInterrumpir(k)
    /\ conversacion' = Append(conversacion, Turno("entrevistador", <<>>))
    /\ pc' = "guardar_abrir"
    /\ sitio' = "interrupcion"
    /\ UNCHANGED <<fin, usar_tts, hayClave, respuesta, nueva_pregunta,
                   resultadoGen, marca, reloj, existe, anterior,
                   nGuardados, ultimoGuardado, nNoVacias,
                   audio, archivo_salida, rutaAbierta, prompt_base, mensajes, remota, varsVista,
                   varsAlmacen, varsCli>>

\* KeyboardInterrupt inside the try: lines 132-137, the handler saves
InterrupcionEnBucle ==
    /\ \/ pc \in PosBucle
       \/ pc \in PosGuardar /\ sitio # "interrupcion"
    /\ \E k \in CortesPosibles : archivo' = ArchivoAlInterrumpir(k)
    /\ pc' = "guardar_abrir"
    /\ sitio' = "interrupcion"
    /\ UNCHANGED <<fin, usar_tts, hayClave, conversacion, respuesta, nueva_pregunta,
                   resultadoGen, marca, reloj, existe, anterior,
                   nGuardados, ultimoGuardado, nNoVacias,
                   audio, archivo_salida, rutaAbierta, prompt_base, mensajes, remota, varsVista,
                   varsAlmacen, varsCli>>

\* KeyboardInterrupt inside the handler: nothing catches it
InterrupcionEnManejador ==
    /\ pc \in PosGuardar /\ sitio = "interrupcion"
    /\ \E k \in CortesPosibles : archivo' = ArchivoAlInterrumpir(k)
    /\ pc' = "abortado"
    /\ fin' = "KeyboardInterrupt"
    /\ UNCHANGED <<usar_tts, hayClave, conversacion, respuesta, nueva_pregunta,
                   resultadoGen, sitio, marca, reloj, existe, anterior,
                   nGuardados, ultimoGuardado, nNoVacias,
                   audio, archivo_salida, rutaAbierta, prompt_base, mensajes, remota, varsVista,
                   varsAlmacen, varsCli>>

Next ==
    \/ MostrarInicial
    \/ VozInicial
    \/ AnadirInicial
    \/ Capturar
    \/ CapturaFalla
    \/ RevisarRespuesta
    \/ AnadirCandidato
    \/ GuardarAbrir
    \/ GuardarAbrirFalla
    \/ GuardarVolcar
    \/ GuardarVolcarFalla
    \/ Generar
    \/ RevisarCierre
    \/ CierreMostrar
    \/ CierreVoz
    \/ CierreAnadir
    \/ Mostrar
    \/ Voz
    \/ Anadir
    \/ InterrupcionAntesDelBucle
    \/ InterrupcionEnBucle
    \/ InterrupcionEnManejador

Spec == Init /\ [][Next]_vars

(***************************************************************************)
(* generar_pregunta called on its own, for any conversation, prompt and    *)
(* reply of the remote model.                                              *)
(***************************************************************************)
\* main() line 144: default and choices of --modelo
ModeloPorDefecto == "meta-llama"

OpcionesModelo == {"claude", "gpt"}

\* what the user may type after --modelo ("" when the flag is absent)
ArgumentosModelo == {"", "claude", "gpt", "meta-llama", "llama"}

\* generar_pregunta lines 155-157: short names and their full identifiers
NombresCortos == {"meta-llama"}

modelo_mapping == [n \in NombresCortos |-> "meta-llama/llama-3.3-8b-instruct:free"]

\* generar_pregunta lines 152-161: the model the request is made for
ModeloEspecifico(nombre_modelo) ==
    LET modelo_especifico ==
            IF nombre_modelo = "" THEN "meta-llama/llama-3.3-8b-instruct:free"
            ELSE nombre_modelo
    IN  IF modelo_especifico \in DOMAIN modelo_mapping
        THEN modelo_mapping[modelo_especifico]
        ELSE modelo_especifico

TurnosPrueba ==
    {[rol |-> "entrevistador", texto |-> TxtPregunta],
     [rol |-> "entrevistador", texto |-> TxtVacio],
     [rol |-> "candidato", texto |-> TxtHola],
     [rol |-> "candidato", texto |-> TxtCandFinalizar]}

ConversacionesPrueba == UNION {[1..n -> TurnosPrueba] : n \in 0..MaxConv}

GenInit ==
    /\ pc = "gen_main"
    /\ fin = ""
    /\ usar_tts = FALSE
    /\ hayClave \in BOOLEAN
    /\ conversacion \in ConversacionesPrueba
    /\ respuesta = <<>>
    /\ nueva_pregunta = <<>>
    /\ resultadoGen = ""
    /\ sitio = ""
    /\ marca = 0
    /\ reloj = 0
    /\ existe = FALSE
    /\ archivo = <<>>
    /\ anterior = <<>>
    /\ nGuardados = 0
    /\ ultimoGuardado = <<>>
    /\ nNoVacias = 0
    /\ audio = ""
    /\ archivo_salida = NombreArchivo("transcripts", 0)
    /\ rutaAbierta = RutaNinguna
    /\ prompt_base \in Prompts
    /\ mensajes = <<>>
    /\ remota = RemotaNinguna
    /\ impresos = <<>>
    /\ nGeneradas = 0
    /\ nEvaluadas = 0
    /\ loggers = <<>>
    /\ disco = DiscoInicial
    /\ llamada = LlamadaNinguna
    /\ cargada = <<>>
    /\ resumen = ResumenNinguno
    /\ argumento \in ArgumentosModelo
    /\ modelo_llm = ""
    /\ modelo_enviado = ""

\* main() lines 142-150: parse_args rejects a value that is not one of the
\* choices and exits; without the flag args.modelo is the default, which is
\* not checked against the choices
GenMain ==
    /\ pc = "gen_main"
    /\ IF argumento = ""
       THEN modelo_llm' = ModeloPorDefecto /\ pc' = "gen_inicio" /\ fin' = fin
       ELSE IF argumento \in OpcionesModelo
            THEN modelo_llm' = argumento /\ pc' = "gen_inicio" /\ fin' = fin
            ELSE modelo_llm' = modelo_llm /\ pc' = "gen_abortado" /\ fin' = "SystemExit"
    /\ UNCHANGED <<usar_tts, hayClave, conversacion, respuesta, nueva_pregunta,
                   resultadoGen, sitio, marca, reloj, existe, archivo, anterior,
                   nGuardados, ultimoGuardado, nNoVacias,
                   audio, archivo_salida, rutaAbierta, prompt_base, mensajes, remota,
                   varsVista, varsAlmacen, argumento, modelo_enviado>>

\* generar_pregunta(conversacion, prompt_base, nombre_modelo): without a
\* client no request is built; with one, the messages are posted for the
\* model the name stands for and the reply (or the error) decides the text
GenLlamar ==
    /\ pc = "gen_inicio"
    /\ \E r \in RespuestasRemotas :
          /\ remota' = IF hayClave THEN r ELSE RemotaNinguna
          /\ nueva_pregunta' = generar_pregunta(hayClave, r)
          /\ resultadoGen' = ClaseResultado(hayClave, r)
    /\ mensajes' = IF hayClave THEN Mensajes(conversacion, prompt_base) ELSE <<>>
    /\ modelo_enviado' = IF hayClave THEN ModeloEspecifico(modelo_llm) ELSE ""
    /\ pc' = "gen_hecho"
    /\ UNCHANGED <<fin, usar_tts, hayClave, conversacion, respuesta,
                   sitio, marca, reloj, existe, archivo, anterior,
                   nGuardados, ultimoGuardado, nNoVacias,
                   audio, archivo_salida, rutaAbierta, prompt_base, varsVista,
                   varsAlmacen, argumento, modelo_llm>>

GenNext == GenMain \/ GenLlamar

SpecGen == GenInit /\ [][GenNext]_vars

(***************************************************************************)
(* The conversation store used on its own (entrevista_logger.py): loggers  *)
(* are created as the clock advances and save; a load or a summary, which *)
(* change nothing of the store, ends the run.  The first logger holds any  *)
(* conversation; a later one is another session, which holds the opening   *)
(* question.                                                               *)
(***************************************************************************)
TurnosAlmacen ==
    {[rol |-> "entrevistador", texto |-> TxtPregunta],
     [rol |-> "candidato", texto |-> TxtEscapes]}

ConversacionesAlmacen == UNION {[1..n -> TurnosAlmacen] : n \in 0..MaxConv}

\* the conversation the session of logger i holds
ConversacionDe(i) ==
    IF i = 1 THEN conversacion ELSE <<Turno("entrevistador", pregunta_inicial)>>

LogInit ==
    /\ pc = "almacen"
    /\ fin = ""
    /\ usar_tts = FALSE
    /\ hayClave = FALSE
    /\ conversacion \in ConversacionesAlmacen
    /\ respuesta = <<>>
    /\ nueva_pregunta = <<>>
    /\ resultadoGen = ""
    /\ sitio = ""
    /\ marca = 0
    /\ reloj = 0
    /\ existe = FALSE
    /\ archivo = <<>>
    /\ anterior = <<>>
    /\ nGuardados = 0
    /\ ultimoGuardado = <<>>
    /\ nNoVacias = 0
    /\ audio = ""
    /\ archivo_salida = NombreArchivo("transcripts", 0)
    /\ rutaAbierta = RutaNinguna
    /\ prompt_base = PromptEjemplo
    /\ mensajes = <<>>
    /\ remota = RemotaNinguna
    /\ impresos = <<>>
    /\ nGeneradas = 0
    /\ nEvaluadas = 0
    /\ loggers = <<>>
    /\ disco = DiscoInicial
    /\ llamada = LlamadaNinguna
    /\ cargada = <<>>
    /\ resumen = ResumenNinguno
    /\ argumento = ""
    /\ modelo_llm = ""
    /\ modelo_enviado = ""

\* the variables of the session controller and of the generator
varsSesion ==
    <<usar_tts, hayClave, conversacion, respuesta, nueva_pregunta, resultadoGen,
      sitio, marca, existe, archivo, anterior, nGuardados, ultimoGuardado,
      nNoVacias, audio, archivo_salida, rutaAbierta, prompt_base, mensajes,
      remota, varsVista, varsCli>>

\* time passes
LogTic ==
    /\ pc = "almacen"
    /\ reloj < MaxTics
    /\ reloj' = reloj + 1
    /\ UNCHANGED <<pc, fin, varsSesion, varsAlmacen>>

\* EntrevistaLogger() lines 24-30, as main.py line 58 calls it
LogCrear ==
    /\ pc = "almacen"
    /\ Len(loggers) < MaxLoggers
    /\ loggers' = Append(loggers,
                         [directorio |-> "transcripts",
                          archivo_salida |-> NombreArchivo("transcripts", Strftime(reloj))])
    /\ UNCHANGED <<pc, fin, reloj, varsSesion, disco, llamada, cargada, resumen>>

\* logger i: guardar_conversacion(conversacion) lines 43-52, returning
LogGuardar ==
    /\ pc = "almacen"
    /\ \E i \in 1..Len(loggers) :
          disco' = [disco EXCEPT ![loggers[i].archivo_salida] =
                       Fichero(TRUE, Serializar(Datos(reloj, ConversacionDe(i))), TRUE,
                               ConversacionDe(i), @.escritores \cup {i})]
    /\ UNCHANGED <<pc, fin, reloj, varsSesion, loggers, llamada, cargada, resumen>>

\* the file a call reads: archivo, or self.archivo_salida when it is None
RutaLeida(i, a) == IF a = RutaNinguna THEN loggers[i].archivo_salida ELSE a

Llamada(op, i, a) ==
    [op |-> op, logger |-> i, ruta |-> RutaLeida(i, a),
     completo |-> disco[RutaLeida(i, a)].completo,
     guardada |-> disco[RutaLeida(i, a)].guardada]

\* logger i: cargar_conversacion(a) lines 65-74; an exception that is not
\* caught leaves the call
LogCargar ==
    /\ pc = "almacen"
    /\ \E i \in 1..Len(loggers) : \E a \in {RutaNinguna} \cup Rutas :
          LET f == disco[RutaLeida(i, a)]
              e == ErrorCargar(f.existe, f.contenido)
          IN  /\ llamada' = Llamada("cargar", i, a)
              /\ cargada' = IF e = "" THEN cargar_conversacion(f.existe, f.contenido)
                            ELSE <<>>
              /\ fin' = e
              /\ pc' = IF e = "" THEN "almacen_hecho" ELSE "almacen_abortado"
    /\ resumen' = ResumenNinguno
    /\ UNCHANGED <<reloj, varsSesion, loggers, disco>>

\* logger i: generar_resumen(a) lines 102-130
LogResumen ==
    /\ pc = "almacen"
    /\ \E i \in 1..Len(loggers) : \E a \in {RutaNinguna} \cup Rutas :
          LET f == disco[RutaLeida(i, a)]
              e == ErrorCargar(f.existe, f.contenido)
          IN  /\ llamada' = Llamada("resumen", i, a)
              /\ cargada' = IF e = "" THEN cargar_conversacion(f.existe, f.contenido)
                            ELSE <<>>
              /\ resumen' = IF e = ""
                            THEN generar_resumen(cargar_conversacion(f.existe, f.contenido))
                            ELSE ResumenNinguno
              /\ fin' = e
              /\ pc' = IF e = "" THEN "almacen_hecho" ELSE "almacen_abortado"
    /\ UNCHANGED <<reloj, varsSesion, loggers, disco>>

LogNext ==
    \/ LogTic
    \/ LogCrear
    \/ LogGuardar
    \/ LogCargar
    \/ LogResumen

SpecLog == LogInit /\ [][LogNext]_vars

(***************************************************************************)
(* Properties.                                                             *)
(***************************************************************************)
\* texto holds marcador at some position, letter case ignored
ContieneSinCaja(texto, marcador) ==
    \E i \in 0..(Len(texto) - Len(marcador)) :
        \A j \in 1..Len(marcador) : LowerChar(texto[i + j]) = marcador[j]

ContieneMarcador(texto) ==
    \/ ContieneSinCaja(texto, MarcadorGracias)
    \/ ContieneSinCaja(texto, MarcadorFinalizar)

UltimoTurno == conversacion[Len(conversacion)]

PosCierre == {"cierre_mostrar", "cierre_voz", "cierre_anadir"}

\* C1: a non-blank capture result becomes exactly one candidate turn carrying
\* that text, and when generar_pregunta is about to be invoked the last
\* guardar_conversacion call was made with the conversation that ends with
\* that turn and the session file holds it.
C1_GuardadoAntesDeGenerar ==
    /\ NumRol(conversacion, "candidato") <= nNoVacias
    /\ pc = "generar" =>
          /\ Strip(respuesta) # <<>>
          /\ conversacion # <<>>
          /\ UltimoTurno = Turno("candidato", respuesta)
          /\ NumRol(conversacion, "candidato") = nNoVacias
          /\ nGuardados >= 1
          /\ ultimoGuardado = conversacion
          /\ cargar_conversacion(existe, archivo) = conversacion

C1_Witness ==
    /\ pc = "generar"
    /\ respuesta = TxtHola
    /\ Len(conversacion) = 2

\* C2: a capture result that is empty or whitespace-only changes nothing:
\* neither the capture step nor the check of line 88 appends a turn, calls
\* guardar_conversacion or touches the file, and the check returns the
\* session to waiting for input (unless an interrupt ends it there).
C2_CapturaVaciaSinEfecto ==
    [][/\ (pc = "esperar" /\ pc' = "revisar_respuesta" /\ Strip(respuesta') = <<>>)
          => UNCHANGED <<conversacion, existe, archivo, nGuardados, ultimoGuardado, fin>>
       /\ (pc = "revisar_respuesta" /\ Strip(respuesta) = <<>> /\ sitio' # "interrupcion")
          => /\ pc' = "esperar"
             /\ UNCHANGED <<conversacion, existe, archivo, nGuardados, ultimoGuardado, fin>>
      ]_vars

C2_Witness ==
    /\ pc = "esperar"
    /\ respuesta = TxtBlancos
    /\ Len(conversacion) = 1
    /\ nGuardados = 0
    /\ ~existe

\* C3: a generated text that contains a closing marker in any letter case
\* never takes the continuing branch and is never followed by a capture;
\* when the session ends through the closing branch that text is the last
\* turn (interviewer), the last guardar_conversacion call was made with the
\* conversation that includes it, and the session file holds it.
C3_CierreTermina ==
    /\ (/\ resultadoGen # ""
        /\ pc \notin {"revisar_cierre", "terminado", "abortado"} \cup PosCierre
        /\ ~(pc \in PosGuardar /\ sitio \in {"cierre", "interrupcion"}))
       => ~ContieneMarcador(nueva_pregunta)
    /\ (pc = "terminado" /\ fin = "cierre") =>
          /\ ContieneMarcador(nueva_pregunta)
          /\ UltimoTurno = Turno("entrevistador", nueva_pregunta)
          /\ ultimoGuardado = conversacion
          /\ cargar_conversacion(existe, archivo) = conversacion

C3_Witness ==
    /\ pc = "terminado"
    /\ fin = "cierre"
    /\ nueva_pregunta = TxtCierreMayus

\* C4 (as claimed): after a KeyboardInterrupt in any state the session has
\* ended with a valid stored record whose conversation is exactly the turns
\* appended so far.
C4_Original ==
    (pc \in {"terminado", "abortado"} /\ fin \in {"interrupcion", "KeyboardInterrupt"}) =>
        /\ existe
        /\ EsJsonValido(archivo)
        /\ Analizar(archivo).conversacion = conversacion

\* C5 (as claimed): when the loop is back at waiting with the three turns
\* opening question, answer, new question, guardar_conversacion has been
\* called twice and the stored record holds all three turns.
C5_Original ==
    (pc = "esperar" /\ Len(conversacion) = 3) =>
        /\ nGuardados = 2
        /\ cargar_conversacion(existe, archivo) = conversacion

\* C6 (as claimed): whenever the session file exists its content is a
\* complete valid record whose conversation is a prefix of the session's.
C6_Original ==
    existe =>
        /\ EsJsonValido(archivo)
        /\ EsPrefijo(Analizar(archivo).conversacion, conversacion)

\* C7: when generation fails (no client, transport error, malformed reply)
\* the text returned is non-empty and matches no closing marker, the closing
\* branch is not taken, and back at waiting the text is the last turn of the
\* conversation, as interviewer.
Fallos == {"cliente", "transporte", "forma"}

C7_RespaldoNoTermina ==
    resultadoGen \in Fallos =>
        /\ nueva_pregunta # <<>>
        /\ ~ContieneMarcador(nueva_pregunta)
        /\ pc \notin PosCierre
        /\ fin # "cierre"
        /\ sitio # "cierre"
        /\ pc = "esperar" => UltimoTurno = Turno("entrevistador", nueva_pregunta)

C7_Witness ==
    /\ pc = "esperar"
    /\ resultadoGen = "transporte"
    /\ Len(conversacion) = 3
    /\ fin = ""

\* C8 (as claimed): every text generar_pregunta returns is non-empty, and no
\* interviewer turn of the conversation has an empty text.
C8_Original ==
    /\ resultadoGen # "" => nueva_pregunta # <<>>
    /\ \A i \in 1..Len(conversacion) :
          conversacion[i].rol = "entrevistador" => conversacion[i].texto # <<>>

\* C9 (as claimed): a guardar_conversacion call that completes on a file
\* which holds the record of the same conversation leaves the file content
\* as it was.
C9_Original ==
    [][(/\ pc = "guardar_volcar"
        /\ pc' \in {"generar", "terminado"}
        /\ EsJsonValido(anterior)
        /\ Analizar(anterior).conversacion = conversacion)
       => archivo' = anterior]_vars

\* C10 (as claimed): a write error of guardar_conversacion never ends the
\* session.
C10_Original == fin # "OSError"

\* C11 (as claimed): an error raised by grabar_y_transcribir never ends the
\* session.
C11_Original == fin # "ErrorCaptura"

PosVoz == {"inicio_voz", "cierre_voz", "voz"}

TrasVoz(p) ==
    IF p = "inicio_voz" THEN "inicio_anadir"
    ELSE IF p = "cierre_voz" THEN "cierre_anadir"
    ELSE "anadir"

C13_VozSinEfecto ==
    [][/\ pc' \in PosVoz => usar_tts'
       /\ (~usar_tts /\ pc \in {"inicio", "cierre_mostrar", "mostrar"}
              /\ fin' # "KeyboardInterrupt" /\ sitio' # "interrupcion")
          => pc' \in {"inicio_anadir", "cierre_anadir", "anadir"}
       /\ (pc \in PosVoz /\ fin' # "KeyboardInterrupt" /\ sitio' # "interrupcion")
          => /\ pc' = TrasVoz(pc)
             /\ UNCHANGED <<fin, usar_tts, hayClave, conversacion, respuesta,
                            nueva_pregunta, resultadoGen, sitio, marca, reloj,
                            existe, archivo, anterior, nGuardados,
                            ultimoGuardado, nNoVacias, archivo_salida,
                            rutaAbierta, prompt_base, mensajes, remota,
                            varsVista, varsAlmacen, varsCli>>
      ]_vars

C13_Witness ==
    /\ pc = "esperar"
    /\ audio = "None"
    /\ Len(conversacion) = 3
    /\ fin = ""

\* C14: the closing branch is taken only for a generated text that holds a
\* closing marker, whatever the candidate answered, and the continuing
\* branch only for a generated text that holds no marker in any letter
\* case.
C14_SoloTextoGenerado ==
    /\ (pc \in PosCierre \/ sitio = "cierre" \/ fin = "cierre")
          => ContieneMarcador(nueva_pregunta)
    /\ pc \in {"mostrar", "voz", "anadir"} => ~ContieneMarcador(nueva_pregunta)

C14_Witness ==
    /\ pc = "esperar"
    /\ fin = ""
    /\ Len(conversacion) = 3
    /\ conversacion[2] = Turno("candidato", TxtCandFinalizar)
    /\ ContieneMarcador(conversacion[2].texto)
    /\ conversacion[3].rol = "entrevistador"

\* C15: the interrupt and every step of its handler leave the conversation
\* as it was; the interrupt itself makes no guardar_conversacion call, the
\* handler makes its call once and never a second one, and the handler
\* returns only from that call, made with the conversation as it is.
C15_ManejadorSoloGuarda ==
    [][/\ sitio' = "interrupcion" => conversacion' = conversacion
       /\ (sitio # "interrupcion" /\ sitio' = "interrupcion")
          => (pc' = "guardar_abrir" /\ nGuardados' = nGuardados)
       /\ (sitio = "interrupcion" /\ nGuardados' # nGuardados)
          => (pc = "guardar_abrir" /\ nGuardados' = nGuardados + 1)
       /\ (sitio = "interrupcion" /\ pc # "guardar_abrir") => pc' # "guardar_abrir"
       /\ (pc' = "terminado" /\ fin' = "interrupcion")
          => (pc = "guardar_volcar" /\ ultimoGuardado' = conversacion')
      ]_vars

C15_Witness ==
    /\ pc = "terminado"
    /\ fin = "interrupcion"
    /\ Len(conversacion) = 2
    /\ nGuardados = 2
    /\ ultimoGuardado = conversacion

\* C16: every step leaves the conversation as it was or appends to it: the
\* conversation before the step is a prefix of the conversation after it,
\* so no turn is removed, reordered or rewritten.
C16_SoloAnade ==
    [][EsPrefijo(conversacion, conversacion')]_vars

C16_Witness ==
    /\ pc = "esperar"
    /\ Len(conversacion) = 3
    /\ nGuardados = 1

\* C17: logger.archivo_salida never changes; every guardar_conversacion
\* call opens that path; and a call that completes leaves in the file the
\* record of the conversation it was given and nothing of the content the
\* file held before, so the stored conversation is the current one, each
\* turn once.
C17_MismaRutaYReemplazo ==
    [][/\ archivo_salida' = archivo_salida
       /\ nGuardados' # nGuardados => rutaAbierta' = archivo_salida
       /\ (pc = "guardar_volcar" /\ pc' \in {"generar", "terminado"})
          => /\ archivo' = Serializar(Datos(marca, conversacion))
             /\ EsJsonValido(archivo')
             /\ Analizar(archivo').conversacion = conversacion
      ]_vars

C17_Witness ==
    /\ pc = "terminado"
    /\ nGuardados = 2
    /\ rutaAbierta = archivo_salida
    /\ EsJsonValido(anterior)
    /\ Len(cargar_conversacion(existe, archivo)) = 3

\* C18 (as claimed): after a failed generation the text returned is one of
\* two literal questions, the transport one after a network or HTTP error
\* and the response-shape one after a reply that lacks choices, message or
\* content.
C18_Original ==
    (pc = "gen_hecho" /\ resultadoGen \in Fallos) =>
        /\ nueva_pregunta \in {RespaldoTransporte, RespaldoForma}
        /\ remota.tipo \in {"error_red", "http_error"}
              => nueva_pregunta = RespaldoTransporte
        /\ remota.tipo \in {"sin_choices", "choices_vacio", "sin_message", "sin_content"}
              => nueva_pregunta = RespaldoForma

\* C18 (amended): after a failed generation the text returned is one of
\* three distinct literal questions: the client one when the client cannot
\* be built, the response-shape one when a decoded reply lacks choices,
\* message or content, and the transport one for every exception of the
\* request or of reading the reply (network error, HTTP error status, body
\* that is not JSON, content that is not a string).
C18_TresRespaldos ==
    /\ Cardinality({RespaldoCliente, RespaldoTransporte, RespaldoForma}) = 3
    /\ (pc = "gen_hecho" /\ ~hayClave) => nueva_pregunta = RespaldoCliente
    /\ (pc = "gen_hecho" /\ hayClave) =>
          /\ remota.tipo \in {"error_red", "http_error", "json_invalido", "contenido_nulo"}
                => nueva_pregunta = RespaldoTransporte
          /\ remota.tipo \in {"sin_choices", "choices_vacio", "sin_message", "sin_content"}
                => nueva_pregunta = RespaldoForma
          /\ remota.tipo \in {"error_red", "http_error", "json_invalido", "contenido_nulo",
                               "sin_choices", "choices_vacio", "sin_message", "sin_content",
                               "ok"}

C18_Witness ==
    /\ pc = "gen_hecho"
    /\ ~hayClave
    /\ nueva_pregunta = RespaldoCliente
    /\ Len(conversacion) = 2

\* C19: the message list posted for a conversation of n turns has n + 2
\* entries: first the system entry with the prompt, the only system entry;
\* then the turns in order, interviewer as assistant and candidate as user,
\* texts unchanged; last the user entry with the fixed instruction.
C19_Mensajes ==
    (pc = "gen_hecho" /\ hayClave) =>
        /\ Len(mensajes) = Len(conversacion) + 2
        /\ mensajes[1] = Msg("system", prompt_base)
        /\ \A i \in 2..Len(mensajes) : mensajes[i].role # "system"
        /\ \A i \in 1..Len(conversacion) :
              /\ mensajes[i + 1].content = conversacion[i].texto
              /\ conversacion[i].rol = "entrevistador" => mensajes[i + 1].role = "assistant"
              /\ conversacion[i].rol = "candidato" => mensajes[i + 1].role = "user"
        /\ mensajes[Len(mensajes)] = Msg("user", InstruccionFinal)

C19_Witness ==
    /\ pc = "gen_hecho"
    /\ hayClave
    /\ Len(conversacion) = 2
    /\ conversacion[1].rol = "entrevistador"
    /\ conversacion[2].rol = "candidato"
    /\ Len(mensajes) = 4

\* C20: no step taken inside generar_pregunta or inside
\* guardar_conversacion, whether the call returns, fails or is interrupted,
\* changes the conversation held by the controller.
C20_ColaboradoresNoMutan ==
    [][(pc = "generar" \/ pc \in PosGuardar) => conversacion' = conversacion]_vars

C20_Witness ==
    /\ pc = "revisar_cierre"
    /\ resultadoGen = "transporte"
    /\ nGuardados = 1
    /\ Len(conversacion) = 2
    /\ ultimoGuardado = conversacion

\* C21: each generated text is checked for termination once, before it is
\* printed; it is printed once, after the check and before the append; and
\* it is appended once, as the text that was printed.  On both branches:
\* after the check of the g-th text g checks were made, after its print g
\* generated texts were printed, after its append g were appended, and no
\* text is generated before the previous one was appended.
NumMostradas == Len(impresos) - 1

NumAnadidas == NumRol(conversacion, "entrevistador") - 1

PosTrasMostrar == {"cierre_voz", "cierre_anadir", "voz", "anadir"}

C21_UnaVez ==
    /\ nGeneradas >= 1 =>
          /\ nGeneradas - 1 <= NumAnadidas
          /\ NumAnadidas <= NumMostradas
          /\ NumMostradas <= nEvaluadas
          /\ nEvaluadas <= nGeneradas
    /\ pc = "revisar_cierre" => nEvaluadas = nGeneradas - 1
    /\ pc \in {"cierre_mostrar", "mostrar"} =>
          /\ nEvaluadas = nGeneradas
          /\ NumMostradas = nGeneradas - 1
    /\ pc \in PosTrasMostrar =>
          /\ nEvaluadas = nGeneradas
          /\ NumMostradas = nGeneradas
          /\ NumAnadidas = nGeneradas - 1
          /\ impresos[Len(impresos)] = nueva_pregunta
    /\ (pc \in {"esperar", "revisar_respuesta", "anadir_candidato"} \/ fin = "cierre")
          => /\ nEvaluadas = nGeneradas
             /\ NumMostradas = nGeneradas
             /\ NumAnadidas = nGeneradas
             /\ nGeneradas >= 1 => UltimoTurno.texto = impresos[Len(impresos)]
    /\ (pc = "esperar" /\ nGeneradas >= 1)
          => UltimoTurno = Turno("entrevistador", nueva_pregunta)

C21_Witness ==
    /\ pc = "terminado"
    /\ fin = "cierre"
    /\ nGeneradas = 1
    /\ nEvaluadas = 1
    /\ impresos = <<pregunta_inicial, TxtCierreGracias>>
    /\ UltimoTurno = Turno("entrevistador", TxtCierreGracias)

\* C24 (as claimed): when the session has ended through the closing branch
\* or through the interrupt handler, every interviewer text that was printed
\* is an interviewer turn of the conversation the session file holds.
C24_Original ==
    pc = "terminado" =>
        \A i \in 1..Len(impresos) :
            \E j \in 1..Len(cargar_conversacion(existe, archivo)) :
                cargar_conversacion(existe, archivo)[j]
                    = Turno("entrevistador", impresos[i])

\* C25: in every state the conversation cargar_conversacion reads from the
\* session file is a prefix of the controller's conversation (a file that
\* is missing or cut reads as the empty conversation), the turns written to
\* the file so far, complete record or not, are the first turns of the
\* controller's conversation, and when the session has ended through the
\* closing branch or through the interrupt handler the file is a complete
\* record of exactly the controller's conversation.
TurnosEscritos == {i \in 1..Len(archivo) : archivo[i].tipo = "turno"}

C25_ArchivoEsPrefijo ==
    /\ EsPrefijo(cargar_conversacion(existe, archivo), conversacion)
    /\ \A i \in TurnosEscritos :
          /\ i - 1 \in 1..Len(conversacion)
          /\ archivo[i].rol = conversacion[i - 1].rol
          /\ DesescaparJson(archivo[i].texto) = conversacion[i - 1].texto
    /\ (pc = "terminado" /\ fin \in {"cierre", "interrupcion"}) =>
          /\ existe
          /\ EsJsonValido(archivo)
          /\ Analizar(archivo).conversacion = conversacion

C25_Witness ==
    /\ pc = "esperar"
    /\ Len(conversacion) = 3
    /\ existe
    /\ EsJsonValido(archivo)
    /\ Len(cargar_conversacion(existe, archivo)) = 2
    /\ \E i \in 1..Len(archivo) : Contiene(archivo[i].texto, <<"\\", "\"">>)

\* C22: when cargar_conversacion reads a file that a completed
\* guardar_conversacion call left, it raises nothing and returns the
\* conversation that call was given: same turns, same order, same roles
\* and texts, whatever characters the texts hold.
C22_IdaYVuelta ==
    (llamada.op = "cargar" /\ llamada.completo) =>
        /\ fin = ""
        /\ pc = "almacen_hecho"
        /\ cargada = llamada.guardada

C22_Witness ==
    /\ llamada.op = "cargar"
    /\ llamada.completo
    /\ llamada.logger = 1
    /\ llamada.ruta = loggers[1].archivo_salida
    /\ cargada = <<Turno("entrevistador", TxtPregunta), Turno("candidato", TxtEscapes)>>
    /\ cargada = conversacion

\* C23 (as claimed): two loggers created in the same directory never have
\* the same output file name, and no file is written by two loggers.
C23_Original ==
    /\ \A i, j \in 1..Len(loggers) :
          (i # j /\ loggers[i].directorio = loggers[j].directorio)
              => loggers[i].archivo_salida # loggers[j].archivo_salida
    /\ \A p \in Rutas : Cardinality(disco[p].escritores) <= 1

\* C26 (as claimed): on a file that is missing or that no completed
\* guardar_conversacion call left, cargar_conversacion raises nothing and
\* returns the empty conversation, and generar_resumen on such a file or on
\* a stored empty conversation returns the error result.
C26_Original ==
    /\ (llamada.op # "" /\ ~llamada.completo) =>
          /\ fin = ""
          /\ cargada = <<>>
    /\ (llamada.op = "resumen" /\ (~llamada.completo \/ llamada.guardada = <<>>)) =>
          /\ fin = ""
          /\ DOMAIN resumen = {"error"}

\* C27: for a stored non-empty conversation of interviewer and candidate
\* turns, generar_resumen returns a summary whose total is the number of
\* turns, whose counts by role are the numbers of turns of each role and
\* add up to the total, whose first utterance is the text of the first turn
\* and whose last utterance is the text of the last turn.
C27_Resumen ==
    (/\ llamada.op = "resumen"
     /\ llamada.completo
     /\ llamada.guardada # <<>>
     /\ \A i \in 1..Len(llamada.guardada) :
           llamada.guardada[i].rol \in {"entrevistador", "candidato"})
    => /\ fin = ""
       /\ "error" \notin DOMAIN resumen
       /\ resumen.turnos_totales = Len(llamada.guardada)
       /\ resumen.turnos_entrevistador = NumRol(llamada.guardada, "entrevistador")
       /\ resumen.turnos_candidato = NumRol(llamada.guardada, "candidato")
       /\ resumen.turnos_entrevistador + resumen.turnos_candidato
             = resumen.turnos_totales
       /\ resumen.primera_pregunta = llamada.guardada[1].texto
       /\ resumen.ultima_interaccion = llamada.guardada[Len(llamada.guardada)].texto

C27_Witness ==
    /\ llamada.op = "resumen"
    /\ llamada.completo
    /\ llamada.guardada = <<Turno("entrevistador", TxtPregunta), Turno("candidato", TxtEscapes)>>
    /\ resumen.turnos_totales = Len(llamada.guardada)
    /\ resumen.primera_pregunta = TxtPregunta
    /\ resumen.ultima_interaccion = TxtEscapes

\* C28 (as claimed): the model name main() passes on is one of the accepted
\* choices, and the request made for an accepted choice names a full model
\* identifier.
IdentificadoresCompletos == {modelo_mapping[n] : n \in DOMAIN modelo_mapping}

C28_Original ==
    /\ pc \in {"gen_inicio", "gen_hecho"} => modelo_llm \in OpcionesModelo
    /\ (pc = "gen_hecho" /\ hayClave /\ modelo_llm \in OpcionesModelo)
          => modelo_enviado \in IdentificadoresCompletos

====
